---------------------------- MODULE Spec2Model ----------------------------
(***************************************************************************)
(* Salon Profit Planner: the scenario store (database.py), the derivation  *)
(* engine, the history buffer and the scenario handlers of the Streamlit   *)
(* script (app.py).                                                        *)
(*                                                                         *)
(* Specifications                                                          *)
(*   Spec       one browser session of a logged-in user: edits of the      *)
(*              inputs and the scenario handlers, each with the script     *)
(*              rerun that follows it                                      *)
(*   SpecHist   the same session, many edits in a row (the history buffer) *)
(*   SpecStore  serialized calls of save_scenario / delete_scenario        *)
(*   SpecConc   the same calls, statement by statement, from concurrent    *)
(*              script threads                                             *)
(***************************************************************************)
EXTENDS Integers, Sequences, FiniteSets, TLC

VARIABLES
    db,        \* table "scenarios": a set of rows [id, user_id, name, description, data_json]
    user_data, \* table "user_data": per user, the value stored for each data_type
    ss,        \* st.session_state of the browser session, and the objects it refers to
    last,      \* the last completed call or handler and what it returned
    procs,     \* concurrent store calls: per script thread, its position and locals
    calls,     \* store calls started by the threads so far
    steps,     \* handlers run in the session so far
    log,       \* history: every state handed to save_state_for_undo, in order
    saved      \* history: per scenario name, the inputs it was last saved from

vars == <<db, user_data, ss, last, procs, calls, steps, log, saved>>

(***************************************************************************)
(* Bounds and small input sets                                             *)
(***************************************************************************)
MaxCalls == 4       \* store calls started by the threads in one behaviour
MaxSteps == 4       \* handlers run in one behaviour of Spec
MaxPushes == 12     \* input edits in one behaviour of SpecHist
MaxUndoSteps == 5    \* handlers run in one behaviour of SpecUndo
MaxStylists == 2    \* length of the stylist list
MaxTrainees == 2    \* length of the trainee list
MaxDrops == 2       \* keys missing from the inputs of a call
MaxLoginSteps == 5  \* events of a browser session with logouts and logins
MaxInputs == 4      \* input changes before and between computations

Procs == {1, 2}     \* concurrent script threads
Users == {1, 2}
Names == {"A", "B", "C", "D"}
NameOrder == <<"A", "B", "C", "D">>
\* what a caller passes as (description, data)
StoreInputs == {[description |-> "", data |-> [retail_percentage |-> 0]],
                [description |-> "busy month", data |-> [retail_percentage |-> 20]]}
SalesValues == {0, 1000}
SecondSalesValues == {0, 500}   \* of a second stylist, for uneven splits
RetailValues == {0, 20}
IncomeValues == {0, 100}
EditedIncome == {"Marketing Support"}
SessionDescriptions == {"busy month"}
\* the values the number inputs take between two computations
GuaranteeValues == {0, 500}
WageValues == {0, 100}
SettingValues ==
    [service_commission_percentage |-> {0, 40},
     retail_commission_percentage |-> {0, 10},
     national_insurance_percentage |-> {0, 10},
     pension_contribution_percentage |-> {0, 5}]
EditedFixedCosts == {"Rent"}
FixedCostValues == {0, 1000}
EditedPercentages == {"Professional Stock", "Retail Stock"}
PercentageValues == {0, 10}
\* the keys an input of a call may lack
DroppedFixedCosts == {"Rent", "Other 2"}

MaxScenarios == 3   \* scenarios per owner
UndoCapacity == 10  \* states kept for undo

None == [id |-> "None"]      \* Python's None for a row lookup
NoCall == [op |-> "none"]

(***************************************************************************)
(* The table "scenarios".  A row is [id, user_id, name, description,       *)
(* data_json].  The program never reads the autoincrement primary key; it  *)
(* only addresses the row it loaded.  The model writes the key of a row as *)
(* <<user_id, name, k>>, k counting the rows of the same owner and name,   *)
(* so that distinct rows have distinct keys and a key is not given again   *)
(* while a thread still holds the row it named.                            *)
(***************************************************************************)
\* db.query(Scenario).filter(user_id == u, name == n)
RowsNamed(d, u, n) == {r \in d : r.user_id = u /\ r.name = n}

\* a variant of the owner's query without its filter
RowsOfAnyOwner(d, u) == d

\* db.query(Scenario).filter(user_id == u)
RowsOf(d, u) == {r \in d : r.user_id = u}

\* .first(): None or one of the matching rows (no ORDER BY: any of them)
First(rows) == IF rows = {} THEN {None} ELSE rows

\* the row a loaded object addresses (WHERE id = ...), if it is still there
RowById(d, i) == {r \in d : r.id = i}

\* the primary key of a new row; held: the keys loaded objects still address
NewId(d, held, u, n) ==
    <<u, n, CHOOSE k \in 1..(Cardinality(d) + Cardinality(held) + 1) :
               /\ <<u, n, k>> \notin {r.id : r \in d} \cup held
               /\ \A j \in 1..(k - 1) : <<u, n, j>> \in {r.id : r \in d} \cup held>>

\* Scenario(user_id=..., name=..., description=..., data_json=json.dumps(data))
NewRow(d, held, u, n, desc, data) ==
    [id |-> NewId(d, held, u, n), user_id |-> u, name |-> n,
     description |-> desc, data_json |-> data]

NamesOf(d, u) == {r.name : r \in RowsOf(d, u)}

\* load_scenarios: the dicts it can return, keyed by scenario name (of several
\* rows of one name the last one listed stays, and .all() has no ORDER BY)
load_scenarios(d, u) ==
    { [n \in NamesOf(d, u) |->
          [description |-> pick[n].description, data |-> pick[n].data_json]]
      : pick \in { f \in [NamesOf(d, u) -> RowsOf(d, u)] :
                     \A n \in NamesOf(d, u) : f[n].name = n } }

(***************************************************************************)
(* save_scenario and delete_scenario as serialized (atomic) calls: the set *)
(* of outcomes [db, ok, msg]                                               *)
(***************************************************************************)
\* a variant of the capacity test that is off by one
AtCapacityAbove(scenario_count) == scenario_count > MaxScenarios

\* the capacity test of save_scenario
AtCapacity(scenario_count) == scenario_count >= MaxScenarios

\* a variant of the update branch that leaves data_json as it was
UpdateDescriptionOnly(existing, desc, data) ==
    [existing EXCEPT !.description = desc]

\* existing_scenario.description = description; .data_json = json.dumps(data)
UpdateRow(existing, desc, data) ==
    [existing EXCEPT !.description = desc, !.data_json = data]

save_scenario(d, u, n, desc, data) ==
    { IF existing # None
      THEN [db |-> (d \ {existing}) \cup {UpdateRow(existing, desc, data)},
            ok |-> TRUE, msg |-> "Scenario saved successfully"]
      ELSE IF AtCapacity(Cardinality(RowsOf(d, u)))
      THEN [db |-> d, ok |-> FALSE, msg |-> "Maximum 3 scenarios allowed"]
      ELSE [db |-> d \cup {NewRow(d, {}, u, n, desc, data)},
            ok |-> TRUE, msg |-> "Scenario saved successfully"]
      : existing \in First(RowsNamed(d, u, n)) }

\* a variant of delete_scenario whose delete is not narrowed to the name
delete_all_scenarios(d, u, n) ==
    { IF scenario # None
      THEN [db |-> d \ {r \in d : r.user_id = u}, ok |-> TRUE]
      ELSE [db |-> d, ok |-> FALSE]
      : scenario \in First({r \in d : r.user_id = u /\ r.name = n}) }

delete_scenario(d, u, n) ==
    { IF scenario # None
      THEN [db |-> d \ {scenario}, ok |-> TRUE]
      ELSE [db |-> d, ok |-> FALSE]
      : scenario \in First(RowsNamed(d, u, n)) }

(***************************************************************************)
(* Numbers.  The script computes with Python floats; the model computes    *)
(* with exact fractions <<numerator, denominator>> in lowest terms, the    *)
(* denominator positive.                                                   *)
(***************************************************************************)
Abs(x) == IF x < 0 THEN -x ELSE x

RECURSIVE GCD(_, _)
GCD(a, b) == IF b = 0 THEN a ELSE GCD(b, a % b)

\* A fraction in lowest terms.  A zero denominator, where Python raises
\* ZeroDivisionError, gives <<0, 0>>: no fraction, and every operation on it
\* gives it again.
Rat(n, d) ==
    IF d = 0 THEN <<0, 0>>
    ELSE LET g == GCD(Abs(n), Abs(d))
             sgn == IF d < 0 THEN -1 ELSE 1
         IN  <<sgn * (n \div g), sgn * (d \div g)>>

R(i) == <<i, 1>>
RAdd(x, y) == Rat(x[1] * y[2] + y[1] * x[2], x[2] * y[2])
RSub(x, y) == Rat(x[1] * y[2] - y[1] * x[2], x[2] * y[2])
RMul(x, y) == Rat(x[1] * y[1], x[2] * y[2])
RDiv(x, y) == Rat(x[1] * y[2], x[2] * y[1])
RLess(x, y) == x[1] * y[2] < y[1] * x[2]
RMax(x, y) == IF RLess(x, y) THEN y ELSE x
RPos(x) == x[1] > 0

\* sum(...) over a list of fractions
RECURSIVE RSum(_)
RSum(s) == IF s = <<>> THEN R(0) ELSE RAdd(Head(s), RSum(Tail(s)))

\* sum(d.values()) of a dict of whole numbers
RECURSIVE SumValues(_, _)
SumValues(f, keys) ==
    IF keys = {} THEN 0
    ELSE LET k == CHOOSE x \in keys : TRUE
         IN  f[k] + SumValues(f, keys \ {k})

\* the running total of a dict of fractions
RECURSIVE RSumValues(_, _)
RSumValues(f, keys) ==
    IF keys = {} THEN R(0)
    ELSE LET k == CHOOSE x \in keys : TRUE
         IN  RAdd(f[k], RSumValues(f, keys \ {k}))

(***************************************************************************)
(* The closed key sets of the input model                                  *)
(***************************************************************************)
FixedCostNames ==
    {"Rent", "Rates, Refuse & Bid", "Water & sewerage", "R & R", "Utilities",
     "Telephone", "Insurance", "Cleaning, laundry etc", "Card fees",
     "Stationery & printing", "Advertising budget", "PR & promotions budget",
     "Sundries", "Legal, prof & accountancy", "Bank charges", "Other 1", "Other 2"}

WagesKey == "Wages/Salaries (excluding retail commission)"
VariableCostNames ==
    {WagesKey, "Retail Commission", "Professional Stock", "Retail Stock",
     "Royalties/Franchise Fee"}

SalarySettingNames ==
    {"service_commission_percentage", "retail_commission_percentage",
     "national_insurance_percentage", "pension_contribution_percentage"}

AdditionalIncomeNames ==
    {"Marketing Support", "Retro Payments", "Training Income", "Rental Income",
     "Other 1", "Other 2"}

(***************************************************************************)
(* calculate_core_values on the values of the inputs.  in: [stylists,      *)
(* retail_percentage, trainees, receptionists, salary_settings,            *)
(* fixed_costs, variable_costs_percentages, additional_income].  The       *)
(* result carries the metrics and, as vcp, variable_costs_percentages as   *)
(* the call leaves them.  The function is written in the order of the      *)
(* source, one operator per passage, each taking what the passages before  *)
(* it have computed.                                                       *)
(***************************************************************************)
weekly_to_monthly == Rat(52, 12)

\* x / 100
Pct(x) == RDiv(R(x), R(100))

\* weekly service, retail and total sales
WeeklyFigures(weekly_service_sales, weekly_retail_sales) ==
    [weekly_service_sales |-> weekly_service_sales,
     weekly_retail_sales |-> weekly_retail_sales,
     weekly_total_sales |-> RAdd(weekly_service_sales, weekly_retail_sales)]

WeeklySales(in) ==
    LET weekly_service_sales ==
            RSum([i \in DOMAIN in.stylists |-> R(in.stylists[i].sales)])
    IN  WeeklyFigures(weekly_service_sales,
                      RMul(weekly_service_sales, Pct(in.retail_percentage)))

\* the monthly values, additional income and fixed costs
MonthlyFigures(w, retail_sales, monthly_service_retail_sales, total_additional_income, total_fixed_costs) ==
    [total_service_sales |-> RMul(w.weekly_service_sales, weekly_to_monthly),
     retail_sales |-> retail_sales,
     total_additional_income |-> total_additional_income,
     monthly_service_retail_sales |-> monthly_service_retail_sales,
     total_sales |-> RAdd(monthly_service_retail_sales, total_additional_income),
     total_fixed_costs |-> total_fixed_costs,
     retail_sales_weekly |-> RDiv(retail_sales, weekly_to_monthly)]

MonthlySales(in, w) ==
    MonthlyFigures(w,
        RMul(w.weekly_retail_sales, weekly_to_monthly),
        RMul(w.weekly_total_sales, weekly_to_monthly),
        R(SumValues(in.additional_income, DOMAIN in.additional_income)),
        R(SumValues(in.fixed_costs, DOMAIN in.fixed_costs)))

\* max(stylist_guarantee, service_commission_amount)
ServiceEarnings(stylist_guarantee, service_commission_amount) ==
    RMax(R(stylist_guarantee), service_commission_amount)

\* the guarantee as a floor under service and retail earnings together
StylistEarningsFloorOnTotal(stylist, service_commission_amount, retail_commission_amount) ==
    [total_earnings |->
         RMax(R(stylist.guarantee),
              RAdd(service_commission_amount, retail_commission_amount)),
     retail_commission_amount |-> retail_commission_amount]

\* the body of the loop over the stylists
StylistEarnings(stylist, service_commission_amount, retail_commission_amount) ==
    [total_earnings |->
         RAdd(ServiceEarnings(stylist.guarantee, service_commission_amount),
              retail_commission_amount),
     retail_commission_amount |-> retail_commission_amount]

\* a share that is all of the retail sales for every stylist with sales
StylistRetailSalesWhole(stylist, weekly_service_sales, retail_sales_weekly) ==
    IF stylist.sales > 0 THEN retail_sales_weekly ELSE R(0)

\* stylist_retail_sales_weekly: the stylist's share of the retail sales
StylistRetailSales(stylist, weekly_service_sales, retail_sales_weekly) ==
    IF RPos(weekly_service_sales)
    THEN RMul(retail_sales_weekly, RDiv(R(stylist.sales), weekly_service_sales))
    ELSE R(0)

StylistPay(stylist, salary_settings, weekly_service_sales, retail_sales_weekly) ==
    StylistEarnings(stylist,
        RMul(R(stylist.sales), Pct(salary_settings["service_commission_percentage"])),
        RMul(StylistRetailSales(stylist, weekly_service_sales, retail_sales_weekly),
             Pct(salary_settings["retail_commission_percentage"])))

\* the weekly salary costs, NI and pension, and their monthly values
SalaryFigures(salary_settings, stylist_weekly_salary_cost, total_weekly_retail_commission, trainee_weekly_salary_cost, receptionist_weekly_salary_cost, total_weekly_salary_cost) ==
    LET national_insurance_cost ==
            RMul(total_weekly_salary_cost,
                 Pct(salary_settings["national_insurance_percentage"]))
        pension_contribution_cost ==
            RMul(total_weekly_salary_cost,
                 Pct(salary_settings["pension_contribution_percentage"]))
        grand_total_weekly_cost ==
            RAdd(total_weekly_salary_cost,
                 RAdd(national_insurance_cost, pension_contribution_cost))
    IN  [weekly_salary_cost |-> total_weekly_salary_cost,
         weekly_stylist_salary_cost |-> stylist_weekly_salary_cost,
         weekly_trainee_salary_cost |-> trainee_weekly_salary_cost,
         weekly_receptionist_salary_cost |-> receptionist_weekly_salary_cost,
         weekly_retail_commission |-> total_weekly_retail_commission,
         weekly_ni_cost |-> national_insurance_cost,
         weekly_pension_cost |-> pension_contribution_cost,
         weekly_total_salary_cost |-> grand_total_weekly_cost,
         total_salary_cost |-> RMul(grand_total_weekly_cost, weekly_to_monthly),
         monthly_retail_commission |->
             RMul(total_weekly_retail_commission, weekly_to_monthly)]

\* the base weekly salary without the trainees and the receptionists
SalaryTotalsStylistsOnly(salary_settings, stylist_weekly_salary_cost, total_weekly_retail_commission, trainee_weekly_salary_cost, receptionist_weekly_salary_cost) ==
    SalaryFigures(salary_settings, stylist_weekly_salary_cost,
        total_weekly_retail_commission, trainee_weekly_salary_cost,
        receptionist_weekly_salary_cost, stylist_weekly_salary_cost)

SalaryTotals(salary_settings, stylist_weekly_salary_cost, total_weekly_retail_commission, trainee_weekly_salary_cost, receptionist_weekly_salary_cost) ==
    SalaryFigures(salary_settings, stylist_weekly_salary_cost,
        total_weekly_retail_commission, trainee_weekly_salary_cost,
        receptionist_weekly_salary_cost,
        RAdd(RAdd(stylist_weekly_salary_cost, trainee_weekly_salary_cost),
             receptionist_weekly_salary_cost))

StylistLoop(in, pay) ==
    SalaryTotals(in.salary_settings,
        RSum([i \in DOMAIN pay |-> pay[i].total_earnings]),
        RSum([i \in DOMAIN pay |-> pay[i].retail_commission_amount]),
        RSum([i \in DOMAIN in.trainees |-> R(in.trainees[i].wage)]),
        RSum([i \in DOMAIN in.receptionists |-> R(in.receptionists[i].wage)]))

Payroll(in, w, m) ==
    StylistLoop(in,
        [i \in DOMAIN in.stylists |->
            StylistPay(in.stylists[i], in.salary_settings,
                       w.weekly_service_sales, m.retail_sales_weekly)])

\* an update that adds to the stored wages percentage
FeedbackAccumulated(variable_costs_percentages, m, p) ==
    [k \in DOMAIN variable_costs_percentages |->
        IF k = WagesKey /\ RPos(m.total_sales)
        THEN RAdd(variable_costs_percentages[k],
                  RMul(RDiv(RSub(p.total_salary_cost, p.monthly_retail_commission),
                            m.total_sales), R(100)))
        ELSE IF k = "Retail Commission" /\ RPos(m.retail_sales)
        THEN RMul(RDiv(p.monthly_retail_commission, m.retail_sales), R(100))
        ELSE variable_costs_percentages[k]]

\* an update whose wages percentage keeps the retail commission
FeedbackOnTotalSalary(variable_costs_percentages, m, p) ==
    [k \in DOMAIN variable_costs_percentages |->
        IF k = WagesKey /\ RPos(m.total_sales)
        THEN RMul(RDiv(p.total_salary_cost, m.total_sales), R(100))
        ELSE IF k = "Retail Commission" /\ RPos(m.retail_sales)
        THEN RMul(RDiv(p.monthly_retail_commission, m.retail_sales), R(100))
        ELSE variable_costs_percentages[k]]

\* an update that also clears the percentages the user edits
FeedbackClearsOthers(variable_costs_percentages, m, p) ==
    [k \in DOMAIN variable_costs_percentages |->
        IF k = WagesKey /\ RPos(m.total_sales)
        THEN RMul(RDiv(RSub(p.total_salary_cost, p.monthly_retail_commission),
                       m.total_sales), R(100))
        ELSE IF k = "Retail Commission" /\ RPos(m.retail_sales)
        THEN RMul(RDiv(p.monthly_retail_commission, m.retail_sales), R(100))
        ELSE IF k \in {WagesKey, "Retail Commission"}
        THEN variable_costs_percentages[k]
        ELSE R(0)]

\* an update with the operands of the subtraction exchanged
FeedbackSwapped(variable_costs_percentages, m, p) ==
    [k \in DOMAIN variable_costs_percentages |->
        IF k = WagesKey /\ RPos(m.total_sales)
        THEN RMul(RDiv(RSub(p.monthly_retail_commission, p.total_salary_cost),
                       m.total_sales), R(100))
        ELSE IF k = "Retail Commission" /\ RPos(m.retail_sales)
        THEN RMul(RDiv(p.monthly_retail_commission, m.retail_sales), R(100))
        ELSE variable_costs_percentages[k]]

\* the keys the update assigns, which the dict gains if it lacks them
AssignedNames(m) ==
    (IF RPos(m.total_sales) THEN {WagesKey} ELSE {})
    \cup (IF RPos(m.retail_sales) THEN {"Retail Commission"} ELSE {})

\* the update of the two derived percentages
Feedback(variable_costs_percentages, m, p) ==
    [k \in DOMAIN variable_costs_percentages \cup AssignedNames(m) |->
        IF k = WagesKey /\ RPos(m.total_sales)
        THEN RMul(RDiv(RSub(p.total_salary_cost, p.monthly_retail_commission),
                       m.total_sales), R(100))
        ELSE IF k = "Retail Commission" /\ RPos(m.retail_sales)
        THEN RMul(RDiv(p.monthly_retail_commission, m.retail_sales), R(100))
        ELSE variable_costs_percentages[k]]

\* the base of a variable cost in calculate_profit of utils.py
BaseValueOfUtils(cost_name, m) ==
    IF cost_name = "Retail Commission" \/ cost_name = "Retail Stock"
    THEN m.retail_sales
    ELSE m.total_sales

\* the base of a variable cost
BaseValue(cost_name, m) ==
    IF cost_name = "Retail Commission" \/ cost_name = "Retail Stock"
    THEN m.retail_sales
    ELSE IF cost_name = "Professional Stock" THEN m.total_service_sales
    ELSE m.total_sales

\* the loop over the variable costs
VariableCosts(vcp, m) ==
    [k \in DOMAIN vcp |-> RMul(BaseValue(k, m), RDiv(vcp[k], R(100)))]

\* margin and total wage percentage divided without the test on total_sales
ProfitFiguresUnguarded(m, p, vcp, variable_costs, total_variable_costs, profit) ==
    [total_variable_costs |-> total_variable_costs,
     profit |-> profit,
     profit_margin |-> RMul(RDiv(profit, m.total_sales), R(100)),
     variable_costs |-> variable_costs,
     total_wage_cost_percentage |->
         RMul(RDiv(p.total_salary_cost, m.total_sales), R(100)),
     vcp |-> vcp]

\* profit, margin and total wage percentage
ProfitFigures(m, p, vcp, variable_costs, total_variable_costs, profit) ==
    [total_variable_costs |-> total_variable_costs,
     profit |-> profit,
     profit_margin |-> IF RPos(m.total_sales)
                       THEN RMul(RDiv(profit, m.total_sales), R(100)) ELSE R(0),
     variable_costs |-> variable_costs,
     total_wage_cost_percentage |->
         IF RPos(m.total_sales)
         THEN RMul(RDiv(p.total_salary_cost, m.total_sales), R(100)) ELSE R(0),
     vcp |-> vcp]

ProfitOf(m, p, vcp, variable_costs, total_variable_costs) ==
    ProfitFigures(m, p, vcp, variable_costs, total_variable_costs,
        RSub(RSub(m.total_sales, m.total_fixed_costs), total_variable_costs))

CostsAndProfit(m, p, vcp, variable_costs) ==
    ProfitOf(m, p, vcp, variable_costs,
             RSumValues(variable_costs, DOMAIN variable_costs))

\* the returned dict (retail_sales_weekly is a local, kept beside it)
Metrics(w, m, p, vcp) ==
    w @@ m @@ p @@ CostsAndProfit(m, p, vcp, VariableCosts(vcp, m))

WithPayroll(in, w, m, p) ==
    Metrics(w, m, p, Feedback(in.variable_costs_percentages, m, p))

WithMonthly(in, w, m) == WithPayroll(in, w, m, Payroll(in, w, m))

WithWeekly(in, w) == WithMonthly(in, w, MonthlySales(in, w))

calculate_core_values(in) == WithWeekly(in, WeeklySales(in))

(***************************************************************************)
(* calculate_profit of utils.py, which no module calls                     *)
(***************************************************************************)
ProfitOfUtils(total_sales, retail_sales, fixed_costs, variable_costs_percentages) ==
    RSub(RSub(total_sales, R(SumValues(fixed_costs, DOMAIN fixed_costs))),
         RSumValues([k \in DOMAIN variable_costs_percentages |->
                        RMul(IF k = "Retail Commission" \/ k = "Retail Stock"
                             THEN retail_sales ELSE total_sales,
                             RDiv(variable_costs_percentages[k], R(100)))],
                    DOMAIN variable_costs_percentages))

SalesOfUtils(service_sales, retail_sales, fixed_costs, variable_costs_percentages) ==
    ProfitOfUtils(RAdd(service_sales, retail_sales), retail_sales, fixed_costs,
                  variable_costs_percentages)

calculate_profit(service_sales, retail_percentage, fixed_costs, variable_costs_percentages) ==
    SalesOfUtils(service_sales, RMul(service_sales, Pct(retail_percentage)),
                 fixed_costs, variable_costs_percentages)
(***************************************************************************)
(* The session.  ss holds the keys of st.session_state; ss.heap holds the  *)
(* dict objects of the staff lists.  stylists, trainees, receptionists and *)
(* the *_data lists of a scenario are lists of references into the heap:   *)
(* list.copy() makes a new list of the same objects, copy.deepcopy and a   *)
(* JSON round trip make new objects.  The undo stack holds deep copies,    *)
(* kept by value.                                                          *)
(***************************************************************************)
Zero(keys) == [k \in keys |-> 0]

\* the values of the objects a list refers to
Deref(h, list) == [i \in DOMAIN list |-> h[list[i]]]

\* a new list of new objects with the values vals, in heap h
NewObjects(h, vals) ==
    LET base == IF DOMAIN h = {} THEN 0
                ELSE CHOOSE m \in DOMAIN h : \A r \in DOMAIN h : r <= m
        refs == [i \in DOMAIN vals |-> base + i]
    IN  [heap |-> [r \in DOMAIN h \cup {base + i : i \in DOMAIN vals} |->
                      IF r \in DOMAIN h THEN h[r] ELSE vals[r - base]],
         list |-> refs]

\* the inputs calculate_core_values reads, by value
Inputs(s) ==
    [stylists |-> Deref(s.heap, s.stylists),
     retail_percentage |-> s.retail_percentage,
     trainees |-> Deref(s.heap, s.trainees),
     receptionists |-> Deref(s.heap, s.receptionists),
     salary_settings |-> s.salary_settings,
     fixed_costs |-> s.fixed_costs,
     variable_costs_percentages |-> s.variable_costs_percentages,
     additional_income |-> s.additional_income]

\* the defaults of initialize_user_data / load_user_session_data
DefaultData ==
    [stylists |-> <<[name |-> "Stylist 1", sales |-> 0, guarantee |-> 0]>>,
     retail_percentage |-> 0,
     trainees |-> <<[name |-> "Trainee 1", wage |-> 0]>>,
     receptionists |-> <<[name |-> "Reception 1", wage |-> 0]>>,
     salary_settings |-> Zero(SalarySettingNames),
     fixed_costs |-> Zero(FixedCostNames),
     variable_costs_percentages |-> [k \in VariableCostNames |-> R(0)],
     additional_income |-> Zero(AdditionalIncomeNames)]

\* the references a session holds, in a fixed order of visit
RECURSIVE ScenarioRefs(_, _)
ScenarioRefs(sc, order) ==
    IF order = <<>> THEN <<>>
    ELSE (IF Head(order) \in DOMAIN sc
          THEN sc[Head(order)].stylist_data \o sc[Head(order)].trainee_data
                 \o sc[Head(order)].receptionist_data
          ELSE <<>>) \o ScenarioRefs(sc, Tail(order))

AllRefs(s) ==
    s.stylists \o s.trainees \o s.receptionists \o ScenarioRefs(s.scenarios, NameOrder)

\* The numbers of the references mean nothing: objects no list refers to are
\* dropped and the others renumbered in the order of visit.
Renumber(s) ==
    LET visit == AllRefs(s)
        used == {visit[i] : i \in DOMAIN visit}
        first(r) == CHOOSE i \in DOMAIN visit :
                       visit[i] = r /\ \A j \in 1..(i - 1) : visit[j] # r
        num(r) == Cardinality({q \in used : first(q) <= first(r)})
        ren(list) == [i \in DOMAIN list |-> num(list[i])]
    IN  [s EXCEPT
           !.heap = [n \in 1..Cardinality(used) |->
                        s.heap[CHOOSE r \in used : num(r) = n]],
           !.stylists = ren(@), !.trainees = ren(@), !.receptionists = ren(@),
           !.scenarios = [k \in DOMAIN @ |->
                [@[k] EXCEPT !.stylist_data = ren(@), !.trainee_data = ren(@),
                             !.receptionist_data = ren(@)]]]

(***************************************************************************)
(* The history buffer                                                      *)
(***************************************************************************)
\* current_state of save_state_for_undo: deep copies
current_state(s) ==
    [stylists |-> Deref(s.heap, s.stylists),
     retail_percentage |-> s.retail_percentage,
     fixed_costs |-> s.fixed_costs,
     variable_costs_percentages |-> s.variable_costs_percentages,
     salary_settings |-> s.salary_settings,
     trainees |-> Deref(s.heap, s.trainees),
     receptionists |-> Deref(s.heap, s.receptionists)]

\* a variant of the push that rejects the newest state when full
PushRejectNewest(stack, state) ==
    IF Len(stack) >= UndoCapacity THEN stack ELSE Append(stack, state)

\* keep only the last 10 states: pop(0) when full, then append
Push(stack, state) ==
    Append(IF Len(stack) >= UndoCapacity THEN Tail(stack) ELSE stack, state)

save_state_for_undo(s) ==
    [s EXCEPT !.undo_stack = Push(@, current_state(s))]

(***************************************************************************)
(* One run of the script with no widget changed: what every rerun does to  *)
(* the session.  calculate_core_values runs at the top of the script and   *)
(* again in the tabs; each call overwrites the two derived percentages.    *)
(***************************************************************************)
Compute(s) ==
    [s EXCEPT !.variable_costs_percentages = calculate_core_values(Inputs(s)).vcp]

\* the retail percentage widget, keyed retail_input_value
RetailWidget(s) ==
    LET retail_pct == s.retail_input_value
    IN  IF retail_pct # s.retail_percentage
        THEN [save_state_for_undo(s) EXCEPT !.retail_percentage = retail_pct]
        ELSE s

\* the rest of a run after the first calculate_core_values
AfterCompute(c) ==
    IF c.retail_input_value # c.retail_percentage
    THEN Compute(RetailWidget(c))
    ELSE c

ScriptRun(s) == Renumber(AfterCompute(Compute(s)))

(***************************************************************************)
(* The handlers of the script.  A handler that ends in st.rerun() is       *)
(* followed by a whole run of the script; a handler that does not is       *)
(* followed by the rest of the run it is in.                               *)
(***************************************************************************)
\* update_stylist_sales(i, new_value)
update_stylist_sales(s, i, new_value) ==
    LET t == save_state_for_undo(s)
    IN  [t EXCEPT !.heap[t.stylists[i]].sales = new_value]

\* the Weekly Sales input of stylist i differs from stylist['sales']
EditStylistSales(i, v) ==
    /\ i \in DOMAIN ss.stylists
    /\ v # ss.heap[ss.stylists[i]].sales
    /\ ss' = ScriptRun(update_stylist_sales(ss, i, v))
    /\ last' = [op |-> "edit"]
    /\ UNCHANGED <<db, user_data, procs, calls, saved>>

\* the Add Stylist button
add_stylist(s) ==
    LET t == save_state_for_undo(s)
        new == NewObjects(t.heap,
                 <<[name |-> "Stylist " \o ToString(Len(t.stylists) + 1),
                    sales |-> 0, guarantee |-> 0]>>)
    IN  [t EXCEPT !.heap = new.heap, !.stylists = @ \o new.list]

AddStylist ==
    /\ Len(ss.stylists) < MaxStylists
    /\ ss' = ScriptRun(add_stylist(ss))
    /\ last' = [op |-> "edit"]
    /\ UNCHANGED <<db, user_data, procs, calls, saved>>

\* the Add Trainee button: no save_state_for_undo()
add_trainee(s) ==
    LET new == NewObjects(s.heap,
                 <<[name |-> "Trainee " \o ToString(Len(s.trainees) + 1),
                    wage |-> 0]>>)
    IN  [s EXCEPT !.heap = new.heap, !.trainees = @ \o new.list]

AddTrainee ==
    /\ Len(ss.trainees) < MaxTrainees
    /\ ss' = ScriptRun(add_trainee(ss))
    /\ last' = [op |-> "edit"]
    /\ UNCHANGED <<db, user_data, procs, calls, saved>>

\* the user types v into the retail percentage widget; the script run sees it
EditRetail(v) ==
    /\ v # ss.retail_input_value
    /\ ss' = ScriptRun([ss EXCEPT !.retail_input_value = v])
    /\ last' = [op |-> "edit"]
    /\ UNCHANGED <<db, user_data, procs, calls, saved>>

\* an Additional Monthly Income input differs from the stored value
edit_additional_income(s, income_name, income_value) ==
    [s EXCEPT !.additional_income[income_name] = income_value]

EditAdditionalIncome(k, v) ==
    /\ v # ss.additional_income[k]
    /\ ss' = ScriptRun(edit_additional_income(ss, k, v))
    /\ last' = [op |-> "edit"]
    /\ UNCHANGED <<db, user_data, procs, calls, saved>>

\* undo_last_change(): the session it leaves and the value it returns.  The
\* lists of the popped state become the live lists.
RestoreLists(s, previous_state, a, b, c) ==
    [s EXCEPT !.heap = c.heap,
              !.stylists = a.list,
              !.retail_percentage = previous_state.retail_percentage,
              !.fixed_costs = previous_state.fixed_costs,
              !.variable_costs_percentages =
                  previous_state.variable_costs_percentages,
              !.salary_settings = previous_state.salary_settings,
              !.trainees = b.list,
              !.receptionists = c.list]

RestoreStaff(s, previous_state, a, b) ==
    RestoreLists(s, previous_state, a, b,
                 NewObjects(b.heap, previous_state.receptionists))

RestoreStylists(s, previous_state, a) ==
    RestoreStaff(s, previous_state, a,
                 NewObjects(a.heap, previous_state.trainees))

Restore(s, previous_state) ==
    RestoreStylists(s, previous_state,
                    NewObjects(s.heap, previous_state.stylists))

\* a variant of undo_last_change that takes the oldest state of the stack
undo_oldest_change(s) ==
    IF s.undo_stack # <<>>
    THEN [state |-> Restore([s EXCEPT !.undo_stack = Tail(@)],
                            Head(s.undo_stack)),
          ok |-> TRUE]
    ELSE [state |-> s, ok |-> FALSE]

\* a variant of undo_last_change that reports success on an empty stack
undo_always_done(s) ==
    IF s.undo_stack # <<>>
    THEN [state |-> Restore([s EXCEPT !.undo_stack =
                                SubSeq(@, 1, Len(@) - 1)],
                            s.undo_stack[Len(s.undo_stack)]),
          ok |-> TRUE]
    ELSE [state |-> s, ok |-> TRUE]

undo_last_change(s) ==
    IF s.undo_stack # <<>>
    THEN [state |-> Restore([s EXCEPT !.undo_stack =
                                SubSeq(@, 1, Len(@) - 1)],
                            s.undo_stack[Len(s.undo_stack)]),
          ok |-> TRUE]
    ELSE [state |-> s, ok |-> FALSE]

\* The run that follows "Last change undone!": st.rerun() leaves the script
\* in the header, before any input widget of the run is drawn.  Whether the
\* widget keyed retail_input_value keeps its value over such a run is up to
\* the Streamlit release: kept, it holds what was typed; dropped, it is set
\* again from retail_percentage.
UndoRerun(s, kept) ==
    ScriptRun(IF kept THEN s
              ELSE [s EXCEPT !.retail_input_value = s.retail_percentage])

\* what the undo button's handler reports: the value undo_last_change
\* returned and the session as it left it
UndoReport(r) ==
    [op |-> "undo", ok |-> r.ok,
     inputs |-> Inputs(r.state),
     before |-> current_state(ss),
     state |-> current_state(r.state),
     undo_stack |-> r.state.undo_stack,
     after_pop |-> last.op = "undo" /\ last.ok]

UndoResult(r, kept) ==
    /\ ss' = IF r.ok THEN UndoRerun(r.state, kept) ELSE ScriptRun(r.state)
    /\ last' = UndoReport(r)
    /\ UNCHANGED <<db, user_data, procs, calls, saved>>

\* the undo button.  The button is disabled while the stack is empty; the
\* call on an empty stack is kept to see what undo_last_change does then.
Undo(kept) ==
    /\ ss.undo_stack = <<>> => kept
    /\ UndoResult(undo_last_change(ss), kept)

\* the 'metrics' entry of a saved scenario
ScenarioMetrics(m) ==
    [monthly_service_sales |-> m.total_service_sales,
     monthly_retail_sales |-> m.retail_sales,
     monthly_total_sales |-> m.total_sales,
     monthly_fixed_costs |-> m.total_fixed_costs,
     monthly_variable_costs |-> m.total_variable_costs,
     monthly_profit |-> m.profit,
     profit_margin |-> m.profit_margin]

\* st.session_state.scenarios[new_scenario_name] = {...}: the lists are
\* list.copy() of the live lists, the dicts dict.copy() of the live dicts
ScenarioEntry(s, scenario_description) ==
    [description |-> scenario_description,
     stylist_data |-> s.stylists,
     retail_percentage |-> s.retail_percentage,
     trainee_data |-> s.trainees,
     receptionist_data |-> s.receptionists,
     salary_settings |-> s.salary_settings,
     fixed_costs |-> s.fixed_costs,
     variable_costs_percentages |-> s.variable_costs_percentages,
     metrics |-> ScenarioMetrics(calculate_core_values(Inputs(s)))]

\* scenario_data as json.dumps writes it: the values of the objects
ScenarioData(h, entry) ==
    [stylist_data |-> Deref(h, entry.stylist_data),
     retail_percentage |-> entry.retail_percentage,
     trainee_data |-> Deref(h, entry.trainee_data),
     receptionist_data |-> Deref(h, entry.receptionist_data),
     salary_settings |-> entry.salary_settings,
     fixed_costs |-> entry.fixed_costs,
     variable_costs_percentages |-> entry.variable_costs_percentages,
     metrics |-> entry.metrics]

SessionMaxScenarios == 3

\* the test of the save handler before it records anything
SaveRefused(s, new_scenario_name) ==
    /\ Cardinality(DOMAIN s.scenarios) >= SessionMaxScenarios
    /\ new_scenario_name \notin DOMAIN s.scenarios

\* a variant of the assignment that also empties the trainee list
record_scenario_without_trainees(s, new_scenario_name, entry) ==
    [s EXCEPT !.scenarios = [k \in DOMAIN @ \cup {new_scenario_name} |->
                                IF k = new_scenario_name THEN entry ELSE @[k]],
              !.trainees = <<>>]

\* st.session_state.scenarios[new_scenario_name] = {...}
record_scenario(s, new_scenario_name, entry) ==
    [s EXCEPT !.scenarios = [k \in DOMAIN @ \cup {new_scenario_name} |->
                                IF k = new_scenario_name THEN entry ELSE @[k]]]

\* the Save Current Plan as Scenario button
SaveScenario(name, desc) ==
    IF SaveRefused(ss, name)
    THEN /\ last' = [op |-> "save", name |-> name, refused |-> TRUE]
         /\ UNCHANGED <<db, user_data, ss, procs, calls, saved>>
    ELSE LET entry == ScenarioEntry(ss, desc)
             s1 == record_scenario(ss, name, entry)
         IN  \E out \in save_scenario(db, ss.user_id, name, desc,
                                      ScenarioData(s1.heap, entry)) :
                /\ db' = out.db
                \* save_user_session_data()
                /\ user_data' = [user_data EXCEPT ![ss.user_id] = Inputs(s1)]
                /\ ss' = ScriptRun([s1 EXCEPT !.current_scenario_name = name])
                /\ saved' = [k \in DOMAIN saved \cup {name} |->
                                IF k = name THEN Inputs(ss) ELSE saved[k]]
                /\ last' = [op |-> "save", name |-> name, refused |-> FALSE,
                            ok |-> out.ok, msg |-> out.msg]
                /\ UNCHANGED <<procs, calls>>

\* the Load Selected Scenario button
load_scenario(s, scenario_to_load) ==
    LET scenario_data == s.scenarios[scenario_to_load]
    IN  [s EXCEPT !.stylists = scenario_data.stylist_data,
                  !.retail_percentage = scenario_data.retail_percentage,
                  !.trainees = scenario_data.trainee_data,
                  !.receptionists = scenario_data.receptionist_data,
                  !.salary_settings = scenario_data.salary_settings,
                  !.fixed_costs = scenario_data.fixed_costs,
                  !.variable_costs_percentages =
                      scenario_data.variable_costs_percentages,
                  !.current_scenario_name = scenario_to_load]

LoadScenario(name) ==
    /\ name \in DOMAIN ss.scenarios
    /\ ss' = ScriptRun(load_scenario(ss, name))
    /\ last' = [op |-> "load", name |-> name]
    /\ UNCHANGED <<db, user_data, procs, calls, saved>>

\* a variant of the delete handler without its test
DeleteNeverRefused(s, scenario_to_load) == FALSE

\* the test of the delete handler
DeleteRefused(s, scenario_to_load) ==
    scenario_to_load = s.current_scenario_name

\* the Delete Selected Scenario button
DeleteScenario(name) ==
    /\ name \in DOMAIN ss.scenarios
    /\ IF DeleteRefused(ss, name)
       THEN /\ last' = [op |-> "delete", name |-> name, refused |-> TRUE]
            /\ UNCHANGED <<db, ss>>
       ELSE \E out \in delete_scenario(db, ss.user_id, name) :
               /\ db' = out.db
               /\ ss' = ScriptRun([ss EXCEPT !.scenarios =
                                     [k \in DOMAIN @ \ {name} |-> @[k]]])
               /\ last' = [op |-> "delete", name |-> name, refused |-> FALSE,
                           ok |-> out.ok]
    /\ UNCHANGED <<user_data, procs, calls, saved>>

(***************************************************************************)
(* Spec: a session of user 1 after login and the first run of the script   *)
(***************************************************************************)
Idle == [pc |-> "idle"]

\* load_user_session_data and the initialisations at the top of the script
FirstRun(u, data, scenarios) ==
    LET a == NewObjects(<<>>, data.stylists)
        b == NewObjects(a.heap, data.trainees)
        c == NewObjects(b.heap, data.receptionists)
    IN  ScriptRun(
          [user_id |-> u,
           heap |-> c.heap,
           stylists |-> a.list,
           retail_percentage |-> data.retail_percentage,
           trainees |-> b.list,
           receptionists |-> c.list,
           salary_settings |-> data.salary_settings,
           fixed_costs |-> data.fixed_costs,
           variable_costs_percentages |-> data.variable_costs_percentages,
           additional_income |-> data.additional_income,
           undo_stack |-> <<>>,
           scenarios |-> scenarios,
           current_scenario_name |-> "Current Plan",
           retail_input_value |-> data.retail_percentage])

Init ==
    /\ db = {}
    /\ user_data = [u \in Users |-> DefaultData]
    /\ ss = FirstRun(1, DefaultData, <<>>)
    /\ last = NoCall
    /\ procs = [p \in Procs |-> Idle]
    /\ calls = 0
    /\ steps = 0
    /\ log = <<>>
    /\ saved = <<>>

\* a scenario name not yet in the session is the first such name of NameOrder
FirstNew(n) ==
    n \notin DOMAIN ss.scenarios =>
        \A i, j \in DOMAIN NameOrder :
            (NameOrder[j] = n /\ i < j) => NameOrder[i] \in DOMAIN ss.scenarios

\* one more event of the session
Tick ==
    /\ steps < MaxSteps
    /\ steps' = steps + 1
    /\ UNCHANGED log

Next ==
    \/ \E i \in 1..MaxStylists, v \in SalesValues : Tick /\ EditStylistSales(i, v)
    \/ Tick /\ AddStylist
    \/ Tick /\ AddTrainee
    \/ \E v \in RetailValues : Tick /\ EditRetail(v)
    \/ \E k \in EditedIncome, v \in IncomeValues : Tick /\ EditAdditionalIncome(k, v)
    \/ \E n \in Names, d \in SessionDescriptions :
          Tick /\ FirstNew(n) /\ SaveScenario(n, d)
    \/ \E n \in Names : Tick /\ LoadScenario(n)
    \/ \E n \in Names : Tick /\ DeleteScenario(n)
    \/ \E kept \in BOOLEAN : Tick /\ Undo(kept)

Spec == Init /\ [][Next]_vars

(***************************************************************************)
(* SpecHist: a session of edits that push on the history buffer, with the  *)
(* pushed snapshots recorded in log in the order of the pushes             *)
(***************************************************************************)
\* one more push: the snapshot is the state the handler finds
Pushed ==
    /\ steps < MaxPushes
    /\ steps' = steps + 1
    /\ log' = Append(log, current_state(ss))

NextHist ==
    \/ \E v \in SalesValues : Pushed /\ EditStylistSales(1, v)
    \/ \E v \in RetailValues : Pushed /\ EditRetail(v)

SpecHist == Init /\ [][NextHist]_vars

(***************************************************************************)
(* SpecUndo: edits that push on the history buffer, and undo.  log holds   *)
(* the states handed to save_state_for_undo and not yet taken back, in the *)
(* order of the pushes.                                                    *)
(***************************************************************************)
UndoTick ==
    /\ steps < MaxUndoSteps
    /\ steps' = steps + 1

\* the handler pushes the state it finds
PushTick ==
    /\ UndoTick
    /\ log' = Append(log, current_state(ss))

\* the undo takes the last push back; a retail widget that kept another
\* value than the restored one pushes the restored state again
PopTick(kept) ==
    /\ UndoTick
    /\ log' = IF log = <<>> THEN log
              ELSE IF kept /\ ss.retail_input_value # log[Len(log)].retail_percentage
              THEN log
              ELSE SubSeq(log, 1, Len(log) - 1)

NextUndo ==
    \/ \E i \in 1..MaxStylists, v \in SalesValues : PushTick /\ EditStylistSales(i, v)
    \/ PushTick /\ AddStylist
    \/ \E v \in RetailValues : PushTick /\ EditRetail(v)
    \/ \E kept \in BOOLEAN : PopTick(kept) /\ Undo(kept)

SpecUndo == Init /\ [][NextUndo]_vars
(***************************************************************************)
(* SpecStore: serialized calls on the store                                *)
(***************************************************************************)
\* names are interchangeable: a call names a stored scenario of the owner or
\* the first name of NameOrder the owner has none of
StoreName(u, n) ==
    n \notin NamesOf(db, u) =>
        \A i, j \in DOMAIN NameOrder :
            (NameOrder[j] = n /\ i < j) => NameOrder[i] \in NamesOf(db, u)

StoreSave(u, n, desc, data) ==
    /\ StoreName(u, n)
    /\ \E out \in save_scenario(db, u, n, desc, data) :
          /\ db' = out.db
          /\ last' = [op |-> "save_scenario", user_id |-> u, name |-> n,
                      description |-> desc, data |-> data,
                      found |-> RowsNamed(db, u, n) # {},
                      ok |-> out.ok, msg |-> out.msg]
    /\ UNCHANGED <<user_data, ss, procs, calls, steps, log, saved>>

StoreDelete(u, n) ==
    /\ StoreName(u, n)
    /\ \E out \in delete_scenario(db, u, n) :
          /\ db' = out.db
          /\ last' = [op |-> "delete_scenario", user_id |-> u, name |-> n,
                      ok |-> out.ok]
    /\ UNCHANGED <<user_data, ss, procs, calls, steps, log, saved>>

InitStore == Init

NextStore ==
    \/ \E u \in Users, n \in Names, in \in StoreInputs :
          StoreSave(u, n, in.description, in.data)
    \/ \E u \in Users, n \in Names : StoreDelete(u, n)

SpecStore == InitStore /\ [][NextStore]_vars

(***************************************************************************)
(* SpecConc: the calls statement by statement.  Every script thread has    *)
(* its own SessionLocal(); nothing in database.py locks, and the table has *)
(* no unique constraint on (user_id, name).  Each query and each commit is *)
(* one step.                                                               *)
(***************************************************************************)
ConcNames == Names
ConcInputs == {[description |-> "", data |-> [retail_percentage |-> 0]]}

\* the keys of the rows the threads have loaded and not yet written
Held == {procs[p].row.id : p \in {q \in Procs :
                                     procs[q].pc \in {"update", "delete"}}}

\* the names owner u has in the store or in a call under way
ConcUsed(u) ==
    NamesOf(db, u) \cup {procs[q].name : q \in {r \in Procs :
                             procs[r].pc # "idle" /\ procs[r].user_id = u}}

\* names are interchangeable: a call names one in use or the first one not
ConcName(u, n) ==
    n \notin ConcUsed(u) =>
        \A i, j \in DOMAIN NameOrder :
            (NameOrder[j] = n /\ i < j) => NameOrder[i] \in ConcUsed(u)

\* a thread enters save_scenario(u, n, desc, data)
BeginSave(p, u, n, desc, data) ==
    /\ procs[p].pc = "idle"
    /\ ConcName(u, n)
    /\ calls < MaxCalls
    /\ calls' = calls + 1
    /\ procs' = [procs EXCEPT ![p] =
          [pc |-> "lookup", op |-> "save_scenario", user_id |-> u, name |-> n,
           description |-> desc, data |-> data, row |-> None]]
    /\ UNCHANGED <<db, last, user_data, ss, steps, log, saved>>

\* existing_scenario = db.query(...).first()
SaveLookup(p) ==
    /\ procs[p].pc = "lookup" /\ procs[p].op = "save_scenario"
    /\ \E existing \in First(RowsNamed(db, procs[p].user_id, procs[p].name)) :
          procs' = [procs EXCEPT ![p].row = existing,
                                 ![p].pc = IF existing # None THEN "update"
                                                               ELSE "count"]
    /\ UNCHANGED <<db, last, calls, user_data, ss, steps, log, saved>>

Return(p, ok, msg) ==
    /\ last' = [op |-> procs[p].op, user_id |-> procs[p].user_id,
                name |-> procs[p].name, ok |-> ok, msg |-> msg]
    /\ procs' = [procs EXCEPT ![p] = Idle]

\* the update branch and db.commit(): UPDATE ... WHERE id = the loaded row,
\* setting the attributes whose value differs from the loaded one
SaveUpdateCommit(p) ==
    /\ procs[p].pc = "update" /\ procs[p].op = "save_scenario"
    /\ LET loaded == procs[p].row
           now == RowById(db, loaded.id)
       IN  IF now = {}
           THEN \* the row is gone: StaleDataError leaves save_scenario
                /\ db' = db
                /\ Return(p, FALSE, "StaleDataError")
           ELSE /\ db' = (db \ now) \cup
                     { [r EXCEPT
                          !.description = IF procs[p].description # loaded.description
                                          THEN procs[p].description ELSE @,
                          !.data_json = IF procs[p].data # loaded.data_json
                                        THEN procs[p].data ELSE @] : r \in now }
                /\ Return(p, TRUE, "Scenario saved successfully")
    /\ UNCHANGED <<calls, user_data, ss, steps, log, saved>>

\* scenario_count = db.query(...).count(), and the capacity test
SaveCount(p) ==
    /\ procs[p].pc = "count"
    /\ IF AtCapacity(Cardinality(RowsOf(db, procs[p].user_id)))
       THEN /\ Return(p, FALSE, "Maximum 3 scenarios allowed")
       ELSE /\ procs' = [procs EXCEPT ![p].pc = "insert"]
            /\ UNCHANGED last
    /\ UNCHANGED <<db, calls, user_data, ss, steps, log, saved>>

\* db.add(scenario); db.commit()
SaveInsertCommit(p) ==
    /\ procs[p].pc = "insert"
    /\ db' = db \cup {NewRow(db, Held, procs[p].user_id, procs[p].name,
                             procs[p].description, procs[p].data)}
    /\ Return(p, TRUE, "Scenario saved successfully")
    /\ UNCHANGED <<calls, user_data, ss, steps, log, saved>>

\* a thread enters delete_scenario(u, n)
BeginDelete(p, u, n) ==
    /\ procs[p].pc = "idle"
    /\ ConcName(u, n)
    /\ calls < MaxCalls
    /\ calls' = calls + 1
    /\ procs' = [procs EXCEPT ![p] =
          [pc |-> "lookup", op |-> "delete_scenario", user_id |-> u, name |-> n,
           row |-> None]]
    /\ UNCHANGED <<db, last, user_data, ss, steps, log, saved>>

\* scenario = db.query(...).first(); return False when there is none
DeleteLookup(p) ==
    /\ procs[p].pc = "lookup" /\ procs[p].op = "delete_scenario"
    /\ \E scenario \in First(RowsNamed(db, procs[p].user_id, procs[p].name)) :
          IF scenario # None
          THEN /\ procs' = [procs EXCEPT ![p].row = scenario, ![p].pc = "delete"]
               /\ UNCHANGED last
          ELSE Return(p, FALSE, "")
    /\ UNCHANGED <<db, calls, user_data, ss, steps, log, saved>>

\* db.delete(scenario); db.commit(); return True
DeleteCommit(p) ==
    /\ procs[p].pc = "delete"
    /\ db' = db \ RowById(db, procs[p].row.id)
    /\ Return(p, TRUE, "")
    /\ UNCHANGED <<calls, user_data, ss, steps, log, saved>>

NextConc ==
    \/ \E p \in Procs, u \in Users, n \in ConcNames, in \in ConcInputs :
          BeginSave(p, u, n, in.description, in.data)
    \/ \E p \in Procs : SaveLookup(p)
    \/ \E p \in Procs : SaveUpdateCommit(p)
    \/ \E p \in Procs : SaveCount(p)
    \/ \E p \in Procs : SaveInsertCommit(p)
    \/ \E p \in Procs, u \in Users, n \in ConcNames : BeginDelete(p, u, n)
    \/ \E p \in Procs : DeleteLookup(p)
    \/ \E p \in Procs : DeleteCommit(p)

SpecConc == InitStore /\ [][NextConc]_vars


(***************************************************************************)
(* SpecCompute: calculate_core_values on the inputs of a session.  The     *)
(* inputs of a call are those of the call before with any number of them   *)
(* assigned anew, as the number inputs of the script assign them; the      *)
(* function is called once or several times before the next assignment.    *)
(* Only the function acts on the session here: the undo stack and the      *)
(* scenarios are those of the initial session.                             *)
(***************************************************************************)
\* the entries of variable_costs_percentages the function assigns
DerivedNames == {WagesKey, "Retail Commission"}

\* a fresh session, and a session after Add Stylist with a scenario recorded
OneStylist == FirstRun(1, DefaultData, <<>>)

WithScenario(s, name) ==
    [s EXCEPT !.scenarios = [n \in {name} |-> ScenarioEntry(s, "")],
              !.current_scenario_name = name]

TwoStylists == ScriptRun(WithScenario(ScriptRun(add_stylist(OneStylist)), "A"))

\* the sessions that differ from s by the assignment of one number input
InputEdits(s) ==
    UNION {{[s EXCEPT !.heap[s.stylists[i]].sales = v] :
               v \in IF i = 1 THEN SalesValues ELSE SecondSalesValues} :
        i \in DOMAIN s.stylists}
    \cup {[s EXCEPT !.heap[s.stylists[i]].guarantee = v] :
        i \in DOMAIN s.stylists, v \in GuaranteeValues}
    \cup {[s EXCEPT !.retail_percentage = v, !.retail_input_value = v] :
        v \in RetailValues}
    \cup UNION {{[s EXCEPT !.salary_settings[k] = v] : v \in SettingValues[k]} :
        k \in SalarySettingNames}
    \cup {[s EXCEPT !.heap[s.trainees[i]].wage = v] :
        i \in DOMAIN s.trainees, v \in WageValues}
    \cup {[s EXCEPT !.heap[s.receptionists[i]].wage = v] :
        i \in DOMAIN s.receptionists, v \in WageValues}
    \cup {[s EXCEPT !.fixed_costs[k] = v] :
        k \in EditedFixedCosts, v \in FixedCostValues}
    \cup {[s EXCEPT !.additional_income[k] = v] :
        k \in EditedIncome, v \in IncomeValues}
    \cup {[s EXCEPT !.variable_costs_percentages[k] = R(v)] :
        k \in EditedPercentages, v \in PercentageValues}

\* the inputs of the next call: one input is assigned
EditInput ==
    /\ steps < MaxInputs
    /\ \E t \in InputEdits(ss) \ {ss} : ss' = t
    /\ steps' = steps + 1
    /\ last' = [op |-> "input"]
    /\ UNCHANGED <<db, user_data, procs, calls, log, saved>>

\* a call of calculate_core_values
Calc ==
    /\ ss' = Compute(ss)
    /\ last' = [op |-> "compute", result |-> calculate_core_values(Inputs(ss))]
    /\ UNCHANGED <<db, user_data, procs, calls, steps, log, saved>>

InitCompute ==
    /\ db = {}
    /\ user_data = [u \in Users |-> DefaultData]
    /\ ss \in {OneStylist, TwoStylists}
    /\ last = NoCall
    /\ procs = [p \in Procs |-> Idle]
    /\ calls = 0
    /\ steps = 0
    /\ log = <<>>
    /\ saved = <<>>

NextCompute == EditInput \/ Calc

SpecCompute == InitCompute /\ [][NextCompute]_vars

(***************************************************************************)
(* SpecKeys: calculate_core_values on inputs that lack keys.  The lists    *)
(* and dicts of the session come from the rows of user_data and are read   *)
(* as they are; nothing in the script tests which keys they hold.          *)
(***************************************************************************)
\* a dict without one key
Without(dict, key) == [k \in DOMAIN dict \ {key} |-> dict[k]]

\* a session with sales, a retail percentage, a commission, a fixed cost and
\* an additional income, after the run that follows the last assignment
Priced(s) ==
    ScriptRun([s EXCEPT !.heap[s.stylists[1]].sales = 1000,
                        !.retail_percentage = 20,
                        !.retail_input_value = 20,
                        !.salary_settings["service_commission_percentage"] = 40,
                        !.fixed_costs["Rent"] = 1000,
                        !.additional_income["Marketing Support"] = 100])

KeySessions == {OneStylist, TwoStylists, Priced(OneStylist), Priced(TwoStylists)}

\* the sessions that differ from s by one missing key
KeyDrops(s) ==
    {[s EXCEPT !.heap[s.stylists[i]] = Without(@, k)] :
        i \in DOMAIN s.stylists, k \in {"sales", "guarantee"}}
    \cup {[s EXCEPT !.heap[s.trainees[i]] = Without(@, "wage")] :
        i \in DOMAIN s.trainees}
    \cup {[s EXCEPT !.heap[s.receptionists[i]] = Without(@, "wage")] :
        i \in DOMAIN s.receptionists}
    \cup {[s EXCEPT !.salary_settings = Without(@, k)] : k \in SalarySettingNames}
    \cup {[s EXCEPT !.fixed_costs = Without(@, k)] : k \in DroppedFixedCosts}
    \cup {[s EXCEPT !.additional_income = Without(@, k)] : k \in EditedIncome}
    \cup {[s EXCEPT !.variable_costs_percentages = Without(@, k)] :
        k \in VariableCostNames}

\* the subscriptions of calculate_core_values that raise KeyError: all of
\* them come before the assignments to variable_costs_percentages
RaisesKeyError(in) ==
    \/ \E i \in DOMAIN in.stylists :
          {"sales", "guarantee"} \ DOMAIN in.stylists[i] # {}
    \/ SalarySettingNames \ DOMAIN in.salary_settings # {}
    \/ \E i \in DOMAIN in.trainees : "wage" \notin DOMAIN in.trainees[i]
    \/ \E i \in DOMAIN in.receptionists : "wage" \notin DOMAIN in.receptionists[i]

\* the inputs of the call lack one more key
DropKey ==
    /\ steps < MaxDrops
    /\ \E t \in KeyDrops(ss) \ {ss} : ss' = t
    /\ steps' = steps + 1
    /\ last' = [op |-> "input"]
    /\ UNCHANGED <<db, user_data, procs, calls, log, saved>>

\* a call of calculate_core_values that raises
CalcRaises ==
    /\ RaisesKeyError(Inputs(ss))
    /\ last' = [op |-> "compute", raised |-> TRUE]
    /\ UNCHANGED <<db, user_data, ss, procs, calls, steps, log, saved>>

\* a call of calculate_core_values that returns
CalcReturns ==
    /\ ~RaisesKeyError(Inputs(ss))
    /\ ss' = Compute(ss)
    /\ last' = [op |-> "compute", raised |-> FALSE,
                result |-> calculate_core_values(Inputs(ss))]
    /\ UNCHANGED <<db, user_data, procs, calls, steps, log, saved>>

InitKeys ==
    /\ db = {}
    /\ user_data = [u \in Users |-> DefaultData]
    /\ ss \in KeySessions
    /\ last = NoCall
    /\ procs = [p \in Procs |-> Idle]
    /\ calls = 0
    /\ steps = 0
    /\ log = <<>>
    /\ saved = <<>>

NextKeys == DropKey \/ CalcRaises \/ CalcReturns

SpecKeys == InitKeys /\ [][NextKeys]_vars

(***************************************************************************)
(* SpecLogin: one browser session in which users log out and in.  The      *)
(* database may hold three scenarios that user 2 saved in another browser  *)
(* session.  log is history: who pushed each state of the undo stack and   *)
(* who set current_scenario_name (0: the initialisation).                  *)
(***************************************************************************)
LoggedIn == ss.user_id # 0

\* logout(): the keys it deletes are gone, the other keys stay
logout(s) ==
    [user_id |-> 0,
     undo_stack |-> s.undo_stack,
     current_scenario_name |-> s.current_scenario_name,
     retail_input_value |-> s.retail_input_value]

\* the Logout button
Logout ==
    /\ ss' = logout(ss)
    /\ last' = [op |-> "logout", user |-> ss.user_id]
    /\ UNCHANGED <<db, user_data, procs, calls, saved>>

\* the first run after login_form has set user_id: load_user_session_data
\* fills the deleted keys from the rows of user_data; undo_stack,
\* scenarios_loaded and current_scenario_name are found in the session, so
\* scenarios becomes {}.  kept: the state of the retail widget, not drawn
\* while logged out, is still there
login(s, u, data, kept) ==
    LET a == NewObjects(<<>>, data.stylists)
        b == NewObjects(a.heap, data.trainees)
        c == NewObjects(b.heap, data.receptionists)
    IN  ScriptRun(
          [user_id |-> u,
           heap |-> c.heap,
           stylists |-> a.list,
           retail_percentage |-> data.retail_percentage,
           trainees |-> b.list,
           receptionists |-> c.list,
           salary_settings |-> data.salary_settings,
           fixed_costs |-> data.fixed_costs,
           variable_costs_percentages |-> data.variable_costs_percentages,
           additional_income |-> data.additional_income,
           undo_stack |-> s.undo_stack,
           scenarios |-> <<>>,
           current_scenario_name |-> s.current_scenario_name,
           retail_input_value |-> IF kept THEN s.retail_input_value
                                  ELSE data.retail_percentage])

\* the login form, submitted with the name and password of user u
Login(u, kept) ==
    /\ ss' = login(ss, u, user_data[u], kept)
    /\ last' = [op |-> "login", user |-> u, previous |-> last.user]
    /\ UNCHANGED <<db, user_data, procs, calls, saved>>

\* the owners of the states of the stack new, which user u has made of old
Owners(own, old, new, u) ==
    [i \in 1..Len(new) |->
        IF i <= Len(old) /\ SubSeq(old, 1, i) = SubSeq(new, 1, i)
        THEN own[i] ELSE u]

\* one more event, by user u
LoginTick(u) ==
    /\ steps' = steps + 1
    /\ log' = [stack |-> Owners(log.stack, ss.undo_stack, ss'.undo_stack, u),
               name |-> IF ss'.current_scenario_name = ss.current_scenario_name
                        THEN log.name ELSE u]

\* a name new to the session and to the owner's rows is the first such name
LoginName(n) ==
    n \notin DOMAIN ss.scenarios \cup NamesOf(db, ss.user_id) =>
        \A i, j \in DOMAIN NameOrder :
            (NameOrder[j] = n /\ i < j) =>
                NameOrder[i] \in DOMAIN ss.scenarios \cup NamesOf(db, ss.user_id)

\* the rows of three scenarios of user 2
StoredByUser2 ==
    LET s == FirstRun(2, DefaultData, <<>>)
        data == ScenarioData(s.heap, ScenarioEntry(s, ""))
    IN  {NewRow({}, {}, 2, n, "", data) : n \in {"A", "B", "C"}}

InitLogin ==
    /\ db \in {{}, StoredByUser2}
    /\ user_data = [u \in Users |-> DefaultData]
    /\ ss = FirstRun(1, DefaultData, <<>>)
    /\ last = NoCall
    /\ procs = [p \in Procs |-> Idle]
    /\ calls = 0
    /\ steps = 0
    /\ log = [stack |-> <<>>, name |-> 0]
    /\ saved = <<>>

NextLogin ==
    \/ \E v \in RetailValues :
          LoggedIn /\ steps < MaxLoginSteps /\ EditRetail(v) /\ LoginTick(ss.user_id)
    \/ \E n \in Names, d \in SessionDescriptions :
          /\ LoggedIn /\ steps < MaxLoginSteps /\ LoginName(n)
          /\ SaveScenario(n, d) /\ LoginTick(ss.user_id)
    \/ \E n \in Names :
          LoggedIn /\ steps < MaxLoginSteps /\ LoadScenario(n) /\ LoginTick(ss.user_id)
    \/ \E n \in Names :
          LoggedIn /\ steps < MaxLoginSteps /\ DeleteScenario(n) /\ LoginTick(ss.user_id)
    \/ \E kept \in BOOLEAN :
          LoggedIn /\ steps < MaxLoginSteps /\ Undo(kept) /\ LoginTick(ss.user_id)
    \/ LoggedIn /\ steps < MaxLoginSteps /\ Logout /\ LoginTick(ss.user_id)
    \/ \E u \in Users, kept \in BOOLEAN :
          ~LoggedIn /\ steps < MaxLoginSteps /\ Login(u, kept) /\ LoginTick(u)

SpecLogin == InitLogin /\ [][NextLogin]_vars
(***************************************************************************)
(* The properties.  Owned and Named read the store directly.               *)
(***************************************************************************)
Owned(d, u) == {r \in d : r.user_id = u}
Named(d, u, n) == {r \in d : r.user_id = u /\ r.name = n}

\* C1: after any sequence of serialized save_scenario and delete_scenario
\* calls from an empty store, every owner has at most 3 stored scenarios, and
\* load_scenarios returns at most 3 entries for every owner.
C1_AtMostThreeScenarios ==
    \A u \in Users :
        /\ Cardinality(Owned(db, u)) <= 3
        /\ \A m \in load_scenarios(db, u) : Cardinality(DOMAIN m) <= 3

\* an owner holds 3 scenarios and the save of a 4th has just been turned down
C1_Witness ==
    /\ last.op = "save_scenario"
    /\ last.ok = FALSE
    /\ Cardinality(Owned(db, last.user_id)) = 3

\* C2: a save under a name the owner does not have, made while the owner has
\* 3 scenarios, returns (False, "Maximum 3 scenarios allowed") and leaves the
\* stored scenarios as they were.
C2_FourthSaveFails ==
    [][ ( /\ last'.op = "save_scenario"
          /\ Named(db, last'.user_id, last'.name) = {}
          /\ Cardinality(Owned(db, last'.user_id)) >= 3 )
        => ( /\ last'.ok = FALSE
             /\ last'.msg = "Maximum 3 scenarios allowed"
             /\ db' = db ) ]_vars

\* the capacity error was returned for a new name to an owner of 3 scenarios
C2_Witness ==
    /\ last.op = "save_scenario"
    /\ last.msg = "Maximum 3 scenarios allowed"
    /\ ~last.found
    /\ Named(db, last.user_id, last.name) = {}
    /\ Cardinality(Owned(db, last.user_id)) = 3

\* C3: a save under a name the owner has succeeds whatever the owner's count:
\* the scenario of that name gets the description and data given, the other
\* scenarios stay, and the owner's count is unchanged.
C3_OverwriteSucceeds ==
    [][ ( /\ last'.op = "save_scenario"
          /\ Named(db, last'.user_id, last'.name) # {} )
        => ( /\ last'.ok = TRUE
             /\ Named(db', last'.user_id, last'.name) # {}
             /\ \A r \in Named(db', last'.user_id, last'.name) :
                   /\ r.description = last'.description
                   /\ r.data_json = last'.data
             /\ db' \ Named(db', last'.user_id, last'.name)
                   = db \ Named(db, last'.user_id, last'.name)
             /\ Cardinality(Owned(db', last'.user_id))
                   = Cardinality(Owned(db, last'.user_id)) ) ]_vars

\* an owner of 3 scenarios has overwritten one of them with other contents
C3_Witness ==
    /\ last.op = "save_scenario"
    /\ last.found
    /\ last.ok
    /\ Cardinality(Owned(db, last.user_id)) = 3
    /\ \E r \in Named(db, last.user_id, last.name) :
          r.description = "busy month"
    /\ \E r \in Owned(db, last.user_id) : r.description = ""

\* C4: under every interleaving of concurrent save_scenario calls for one
\* owner, the owner never has more than 3 stored scenarios.
C4_RaceFreeCapacity ==
    \A u \in Users : Cardinality(Owned(db, u)) <= 3

\* C5: after any save_scenario calls, interleaved ones with the same owner
\* and name included, the store holds at most one row for each (owner, name).
C5_OneRowPerName ==
    \A u \in Users, n \in Names : Cardinality(Named(db, u, n)) <= 1

\* C6: after a scenario saved from inputs X is loaded, whatever was edited in
\* between, the live inputs give the Metrics X gave: every input that
\* calculate_core_values reads has its value of X.
C6_RoundTrip ==
    last.op = "load" =>
        /\ Inputs(ss) = saved[last.name]
        /\ calculate_core_values(Inputs(ss))
              = calculate_core_values(saved[last.name])

\* C7: a delete request for the scenario named current_scenario_name leaves
\* the session's scenarios and the owner's stored scenarios as they were, the
\* scenario still among them.
C7_ActiveScenarioKept ==
    [][ ( /\ last'.op = "delete"
          /\ last'.name = ss.current_scenario_name )
        => ( /\ ss'.scenarios = ss.scenarios
             /\ last'.name \in DOMAIN ss'.scenarios
             /\ db' = db ) ]_vars

\* the delete of the active scenario, saved in the session and in the store,
\* has just been refused
C7_Witness ==
    /\ last.op = "delete"
    /\ last.refused
    /\ last.name = ss.current_scenario_name
    /\ last.name \in DOMAIN ss.scenarios
    /\ Named(db, ss.user_id, last.name) # {}

\* C8: delete_scenario for a name the owner does not have returns False and
\* leaves the store unchanged; for a name the owner has it removes exactly
\* the scenario of that name and returns True.
C8_DeleteExactlyOne ==
    [][ last'.op = "delete_scenario" =>
          IF Named(db, last'.user_id, last'.name) = {}
          THEN last'.ok = FALSE /\ db' = db
          ELSE /\ last'.ok = TRUE
               /\ Cardinality(Named(db, last'.user_id, last'.name)) = 1
               /\ db' = db \ Named(db, last'.user_id, last'.name) ]_vars

\* a scenario was deleted from an owner who keeps others
C8_Witness ==
    /\ last.op = "delete_scenario"
    /\ last.ok
    /\ Cardinality(Owned(db, last.user_id)) = 2
    /\ Named(db, last.user_id, last.name) = {}

\* C9: under any interleaving, a step of a save_scenario or delete_scenario
\* call for one owner leaves the rows of every other owner as they were, and
\* the capacity test of a save passes exactly when the caller's own rows are
\* fewer than 3.
C9_OwnersIndependent ==
    [][ \A p \in Procs :
          procs'[p] # procs[p] =>
            LET u == IF procs[p].pc = "idle" THEN procs'[p].user_id
                                             ELSE procs[p].user_id
            IN  /\ \A b \in Users \ {u} : Owned(db', b) = Owned(db, b)
                /\ procs[p].pc = "count" =>
                      ( procs'[p].pc = "insert"
                          <=> Cardinality(Owned(db, u)) < 3 ) ]_vars

\* a save has passed the capacity test while another owner holds 3 scenarios
C9_Witness ==
    \E p \in Procs :
        /\ procs[p].pc = "insert"
        /\ \E b \in Users \ {procs[p].user_id} : Cardinality(Owned(db, b)) = 3

\* C10: after n pushes and no pop the history buffer holds the last
\* min(n, 10) pushed snapshots in the order of the pushes, so never more
\* than 10; after 11 pushes the 1st is gone and the 2nd to 11th remain.
C10_LastTenPushes ==
    LET n == Len(log)
        k == IF n < 10 THEN n ELSE 10
    IN  /\ Len(ss.undo_stack) = k
        /\ \A i \in 1..k : ss.undo_stack[i] = log[n - k + i]

\* 11 pushes made: the buffer starts at the 2nd, which differs from the 1st
C10_Witness ==
    /\ Len(log) = 11
    /\ Len(ss.undo_stack) = 10
    /\ ss.undo_stack[1] = log[2]
    /\ ss.undo_stack[10] = log[11]
    /\ log[1] # log[2]

\* C11: undo on an empty history buffer is a no-op: undo_last_change returns
\* False and leaves every input and the buffer as they were, and so does the
\* rest of the run; also when the buffer was emptied by undos.
C11_UndoOnEmptyIsNoOp ==
    [][ ( /\ last'.op = "undo"
          /\ ss.undo_stack = <<>> )
        => ( /\ last'.ok = FALSE
             /\ last'.inputs = Inputs(ss)
             /\ last'.undo_stack = <<>>
             /\ Inputs(ss') = Inputs(ss)
             /\ ss'.undo_stack = <<>> ) ]_vars

\* an undo found the buffer empty right after an undo that took a state back
C11_Witness ==
    /\ last.op = "undo"
    /\ ~last.ok
    /\ last.after_pop
    /\ ss.undo_stack = <<>>
    /\ steps >= 3

\* C12: undo_last_change takes the most recently pushed snapshot off the
\* buffer and sets stylists, retail_percentage, fixed_costs,
\* variable_costs_percentages, salary_settings, trainees and receptionists to
\* the values they had when it was pushed, whatever was edited in place since.
C12_UndoRestoresLastPush ==
    [][ ( /\ last'.op = "undo"
          /\ log # <<>> )
        => ( /\ last'.ok = TRUE
             /\ last'.state = log[Len(log)]
             /\ last'.undo_stack = SubSeq(log, 1, Len(log) - 1) ) ]_vars

\* an undo gave back the later of two different pushed states, the live
\* stylists having been edited in place after the push
C12_Witness ==
    /\ last.op = "undo"
    /\ last.ok
    /\ Len(last.undo_stack) >= 1
    /\ last.undo_stack[Len(last.undo_stack)] # last.state
    /\ last.state.stylists[1].sales = 1000
    /\ last.before.stylists[1].sales = 0

\* C13: every user action that changes a value calculate_core_values reads
\* pushes a snapshot first, so that one undo after the action gives every
\* input the value it had before the action.
C13_EveryMutationPushes ==
    [][ ( /\ last'.op # "undo"
          /\ Inputs(ss') # Inputs(ss) )
        => ( /\ undo_last_change(ss').ok
             /\ Inputs(undo_last_change(ss').state) = Inputs(ss) ) ]_vars

(***************************************************************************)
(* Claims about calculate_core_values, under SpecCompute                   *)
(***************************************************************************)
\* the result of calling calculate_core_values on the session as it is
Result == calculate_core_values(Inputs(ss))

\* C14: a second call of calculate_core_values with no input change after
\* the first returns the same metrics as the first and leaves
\* variable_costs_percentages as the first call left them
C14_ComputeIdempotent ==
    last.op = "compute" =>
        /\ Result = last.result
        /\ Compute(ss) = ss
        /\ ss.variable_costs_percentages = last.result.vcp

\* a call that overwrote both derived percentages with positive values
C14_Witness ==
    /\ last.op = "compute"
    /\ RPos(last.result.vcp[WagesKey])
    /\ RPos(last.result.vcp["Retail Commission"])
    /\ RPos(last.result.profit)

\* C15: a call sets the wages percentage to (total_salary_cost -
\* monthly_retail_commission) / total_sales * 100 when total_sales > 0 and
\* the retail commission percentage to monthly_retail_commission /
\* retail_sales * 100 when retail_sales > 0, leaves each unchanged
\* otherwise, and computes the returned variable costs from the percentages
\* after this update
C15_FeedbackStep ==
    [][ last'.op = "compute" =>
          LET r == last'.result
              old == ss.variable_costs_percentages
              new == ss'.variable_costs_percentages
          IN  /\ new[WagesKey] =
                    IF RLess(R(0), r.total_sales)
                    THEN RMul(RDiv(RSub(r.total_salary_cost,
                                        r.monthly_retail_commission),
                                   r.total_sales), R(100))
                    ELSE old[WagesKey]
              /\ new["Retail Commission"] =
                    IF RLess(R(0), r.retail_sales)
                    THEN RMul(RDiv(r.monthly_retail_commission, r.retail_sales),
                              R(100))
                    ELSE old["Retail Commission"]
              /\ r.vcp = new
              /\ \A k \in DOMAIN new :
                    r.variable_costs[k] =
                        RDiv(RMul(BaseValue(k, r), new[k]), R(100))
              /\ r.total_variable_costs =
                    RSumValues(r.variable_costs, DOMAIN new) ]_vars

\* a call with total_sales > 0 and retail_sales = 0: the wages percentage is
\* overwritten and the retail commission percentage of an earlier call stays
C15_Witness ==
    /\ last.op = "compute"
    /\ RPos(last.result.total_sales)
    /\ last.result.retail_sales = R(0)
    /\ ss.variable_costs_percentages["Retail Commission"] = R(10)
    /\ last.result.variable_costs["Retail Commission"] = R(0)

\* C16: a call changes nothing of the session but the two derived entries of
\* variable_costs_percentages: the other entries and the key set, the staff
\* lists, retail_percentage, salary_settings, fixed_costs,
\* additional_income, the undo stack and the scenarios stay as they were
C16_ComputeFrame ==
    [][ last'.op = "compute" =>
          /\ [ss' EXCEPT !.variable_costs_percentages =
                             ss.variable_costs_percentages] = ss
          /\ DOMAIN ss'.variable_costs_percentages =
                 DOMAIN ss.variable_costs_percentages
          /\ \A k \in DOMAIN ss.variable_costs_percentages \ DerivedNames :
                 ss'.variable_costs_percentages[k] =
                     ss.variable_costs_percentages[k]
          /\ [Inputs(ss') EXCEPT !.variable_costs_percentages =
                 ss.variable_costs_percentages] = Inputs(ss)
          /\ ss'.undo_stack = ss.undo_stack
          /\ ss'.scenarios = ss.scenarios ]_vars

\* a call that overwrote the wages percentage in a session with an edited
\* percentage, a state kept for undo and a scenario
C16_Witness ==
    /\ last.op = "compute"
    /\ RPos(ss.variable_costs_percentages[WagesKey])
    /\ ss.variable_costs_percentages["Professional Stock"] = R(10)
    /\ ss.undo_stack # <<>>
    /\ DOMAIN ss.scenarios # {}
    /\ ss.scenarios["A"].variable_costs_percentages[WagesKey] = R(0)

\* C17: no call divides by zero; when every stylist's sales are 0,
\* weekly_retail_sales and every stylist's retail share are 0; when
\* total_sales is 0, profit_margin and total_wage_cost_percentage are 0
C17_ZeroDenominators ==
    LET in == Inputs(ss)
        r == Result
    IN  /\ \A f \in {"profit_margin", "total_wage_cost_percentage",
                     "weekly_retail_commission", "total_variable_costs",
                     "total_salary_cost", "profit"} : r[f][2] # 0
        /\ \A k \in DOMAIN r.vcp : r.vcp[k][2] # 0 /\ r.variable_costs[k][2] # 0
        /\ (\A i \in DOMAIN in.stylists : in.stylists[i].sales = 0) =>
              /\ r.weekly_retail_sales = R(0)
              /\ \A i \in DOMAIN in.stylists :
                    StylistRetailSales(in.stylists[i], r.weekly_service_sales,
                                       r.retail_sales_weekly) = R(0)
        /\ r.total_sales = R(0) =>
              /\ r.profit_margin = R(0)
              /\ r.total_wage_cost_percentage = R(0)

\* a call with no sales at all, a retail percentage, a salary cost and a loss
C17_Witness ==
    /\ last.op = "compute"
    /\ \A i \in DOMAIN ss.stylists : ss.heap[ss.stylists[i]].sales = 0
    /\ ss.retail_percentage = 20
    /\ last.result.total_sales = R(0)
    /\ RPos(last.result.total_salary_cost)
    /\ RLess(last.result.profit, R(0))
    /\ last.result.profit_margin = R(0)

\* C18: a stylist's service earnings are max(guarantee, sales *
\* service_commission_percentage / 100), so the guarantee itself when that
\* percentage is 0; the retail commission is added on top and does not
\* depend on the guarantee
C18_GuaranteeFloor ==
    LET in == Inputs(ss)
        r == Result
        svc == in.salary_settings["service_commission_percentage"]
        rcp == in.salary_settings["retail_commission_percentage"]
        pay(st) == StylistPay(st, in.salary_settings, r.weekly_service_sales,
                              r.retail_sales_weekly)
        service(st) == RSub(pay(st).total_earnings,
                            pay(st).retail_commission_amount)
        commission(st) == Rat(st.sales * svc, 100)
    IN  /\ \A i \in DOMAIN in.stylists :
              LET st == in.stylists[i]
              IN  /\ service(st) = IF RLess(commission(st), R(st.guarantee))
                                   THEN R(st.guarantee) ELSE commission(st)
                  /\ svc = 0 => service(st) = R(st.guarantee)
                  /\ pay(st).retail_commission_amount =
                        RDiv(RMul(StylistRetailSales(st, r.weekly_service_sales,
                                      r.retail_sales_weekly), R(rcp)), R(100))
                  /\ pay(st).retail_commission_amount =
                        pay([st EXCEPT !.guarantee = 0]).retail_commission_amount
        /\ r.weekly_stylist_salary_cost =
              RSum([i \in DOMAIN in.stylists |-> pay(in.stylists[i]).total_earnings])

\* a call for a single stylist paid the guarantee of 500 plus a retail
\* commission of 20
C18_Witness ==
    /\ last.op = "compute"
    /\ Len(ss.stylists) = 1
    /\ ss.heap[ss.stylists[1]].guarantee = 500
    /\ ss.heap[ss.stylists[1]].sales = 1000
    /\ last.result.weekly_retail_commission = R(20)
    /\ last.result.weekly_stylist_salary_cost = R(520)

\* the numeric inputs are all non-negative
NonNegativeInputs(in) ==
    /\ \A i \in DOMAIN in.stylists :
          in.stylists[i].sales >= 0 /\ in.stylists[i].guarantee >= 0
    /\ \A i \in DOMAIN in.trainees : in.trainees[i].wage >= 0
    /\ \A i \in DOMAIN in.receptionists : in.receptionists[i].wage >= 0
    /\ in.retail_percentage >= 0
    /\ \A k \in DOMAIN in.salary_settings : in.salary_settings[k] >= 0
    /\ \A k \in DOMAIN in.fixed_costs : in.fixed_costs[k] >= 0
    /\ \A k \in DOMAIN in.additional_income : in.additional_income[k] >= 0
    /\ \A k \in DOMAIN in.variable_costs_percentages :
          ~RLess(in.variable_costs_percentages[k], R(0))

\* C19: on non-negative inputs, after any computations and input changes
\* that keep them non-negative, a call returns non-negative fixed costs,
\* variable costs (total and each entry) and weekly and monthly sales
C19_NonNegative ==
    LET r == Result
    IN  NonNegativeInputs(Inputs(ss)) =>
          /\ \A f \in {"total_fixed_costs", "total_variable_costs",
                       "weekly_service_sales", "weekly_retail_sales",
                       "weekly_total_sales", "total_service_sales",
                       "retail_sales", "monthly_service_retail_sales",
                       "total_sales"} : ~RLess(r[f], R(0))
          /\ \A k \in DOMAIN r.variable_costs : ~RLess(r.variable_costs[k], R(0))

\* a call that returns positive variable costs and a negative profit
C19_Witness ==
    /\ last.op = "compute"
    /\ NonNegativeInputs(Inputs(ss))
    /\ RPos(last.result.total_variable_costs)
    /\ RPos(last.result.total_fixed_costs)
    /\ RLess(last.result.profit, R(0))
    /\ RLess(last.result.profit_margin, R(0))

\* the sum of the wages of a staff list
RECURSIVE SumWages(_)
SumWages(staff) ==
    IF staff = <<>> THEN 0 ELSE Head(staff).wage + SumWages(Tail(staff))

\* the inputs of the worked example
PayrollExample(in) ==
    /\ Len(in.stylists) = 1
    /\ in.stylists[1].sales = 1000
    /\ in.stylists[1].guarantee = 0
    /\ in.salary_settings["service_commission_percentage"] = 40
    /\ in.salary_settings["retail_commission_percentage"] = 10
    /\ in.salary_settings["national_insurance_percentage"] = 0
    /\ in.salary_settings["pension_contribution_percentage"] = 0
    /\ in.retail_percentage = 20
    /\ \A i \in DOMAIN in.trainees : in.trainees[i].wage = 0
    /\ \A i \in DOMAIN in.receptionists : in.receptionists[i].wage = 0
    /\ \A k \in DOMAIN in.additional_income : in.additional_income[k] = 0

\* C20: weekly stylist salary cost is the sum over the stylists of
\* max(guarantee, sales * service% / 100) + (sales / weekly_service_sales *
\* weekly_retail_sales) * retail commission% / 100; the base weekly salary
\* adds the trainee and receptionist wages; NI and pension are each a
\* percentage of the base; the monthly salary cost is (base + NI + pension)
\* * 52/12; the worked example gives 420, 1820 and total sales 5200
C20_Payroll ==
    LET in == Inputs(ss)
        r == Result
        set == in.salary_settings
        share(st) == IF r.weekly_service_sales = R(0) THEN R(0)
                     ELSE RMul(RDiv(R(st.sales), r.weekly_service_sales),
                               r.weekly_retail_sales)
        earned(st) ==
            RAdd(RMax(R(st.guarantee),
                      Rat(st.sales * set["service_commission_percentage"], 100)),
                 RDiv(RMul(share(st), R(set["retail_commission_percentage"])),
                      R(100)))
        base == r.weekly_salary_cost
    IN  /\ r.weekly_stylist_salary_cost =
              RSum([i \in DOMAIN in.stylists |-> earned(in.stylists[i])])
        /\ base = RAdd(r.weekly_stylist_salary_cost,
                       R(SumWages(in.trainees) + SumWages(in.receptionists)))
        /\ r.weekly_ni_cost =
              RDiv(RMul(base, R(set["national_insurance_percentage"])), R(100))
        /\ r.weekly_pension_cost =
              RDiv(RMul(base, R(set["pension_contribution_percentage"])), R(100))
        /\ r.total_salary_cost =
              RDiv(RMul(RAdd(base, RAdd(r.weekly_ni_cost, r.weekly_pension_cost)),
                        R(52)), R(12))
        /\ PayrollExample(in) =>
              /\ r.weekly_salary_cost = R(420)
              /\ r.total_salary_cost = R(1820)
              /\ r.total_sales = R(5200)

\* a call on the inputs of the worked example
C20_Witness ==
    /\ last.op = "compute"
    /\ PayrollExample(Inputs(ss))
    /\ last.result.weekly_retail_sales = R(200)
    /\ last.result.weekly_salary_cost = R(420)
    /\ last.result.total_salary_cost = R(1820)
    /\ last.result.total_sales = R(5200)

\* the base the variable cost of an entry is a percentage of
CostBase(k, r) ==
    CASE k \in {"Retail Commission", "Retail Stock"} -> r.retail_sales
      [] k = "Professional Stock" -> r.total_service_sales
      [] OTHER -> r.total_sales

MissingKey(in) ==
    \/ \E i \in DOMAIN in.stylists :
          {"sales", "guarantee"} \ DOMAIN in.stylists[i] # {}
    \/ \E i \in DOMAIN in.trainees : "wage" \notin DOMAIN in.trainees[i]
    \/ \E i \in DOMAIN in.receptionists : "wage" \notin DOMAIN in.receptionists[i]
    \/ SalarySettingNames \ DOMAIN in.salary_settings # {}
    \/ FixedCostNames \ DOMAIN in.fixed_costs # {}
    \/ AdditionalIncomeNames \ DOMAIN in.additional_income # {}
    \/ VariableCostNames \ DOMAIN in.variable_costs_percentages # {}

\* C22: on inputs with a required key missing the call raises, returns no
\* metrics and leaves the inputs as they were
C22_InvalidInputAborts ==
    [][ (last'.op = "compute" /\ MissingKey(Inputs(ss))) =>
          /\ last'.raised
          /\ "result" \notin DOMAIN last'
          /\ ss' = ss ]_vars

\* the part of C22 the code has: a key missing from a stylist, a wage
\* earner or salary_settings makes the call raise before it assigns
KeyErrorLeavesInputs ==
    [][ (last'.op = "compute" /\ RaisesKeyError(Inputs(ss))) =>
          (last'.raised /\ "result" \notin DOMAIN last' /\ ss' = ss) ]_vars

(***************************************************************************)
(* Claims about sessions with logouts and logins, under SpecLogin          *)
(***************************************************************************)
\* a save or delete that failed: refused by the handler or by the store
StoreFailure(l) ==
    /\ l.op \in {"save", "delete"}
    /\ (l.refused \/ ~l.ok)

\* C23: when a save or a delete of a scenario fails (capacity reached in
\* the session or in the store, active scenario, name absent from the
\* store), the eight inputs of the session are after the user action what
\* they were before it
C23_FailedStoreKeepsInputs ==
    [][ StoreFailure(last') => Inputs(ss') = Inputs(ss) ]_vars

\* a save the store rejected, in a session with a retail percentage
C23_Witness ==
    /\ last.op = "save"
    /\ ~last.refused
    /\ ~last.ok
    /\ last.msg = "Maximum 3 scenarios allowed"
    /\ ss.retail_percentage = 20

\* C24: after a logout and a login as a different user, nothing in the
\* session is of the user who logged out: no state of the undo stack was
\* pushed by them, current_scenario_name was not set by them, the scenario
\* map holds only names of the new user's rows and the inputs are those a
\* fresh browser session gives the new user
C24_LogoutClearsUserData ==
    [][ (last'.op = "login" /\ last'.user # last'.previous) =>
          /\ \A i \in DOMAIN ss'.undo_stack : log'.stack[i] # last'.previous
          /\ log'.name # last'.previous
          /\ DOMAIN ss'.scenarios \subseteq NamesOf(db', last'.user)
          /\ Inputs(ss') =
                Inputs(FirstRun(last'.user, user_data'[last'.user], <<>>)) ]_vars

\* the part of C24 the code has: the scenario map of the user who logged
\* out is gone
LogoutClearsScenarios ==
    [][ last'.op = "login" => ss'.scenarios = <<>> ]_vars

(***************************************************************************)
(* Claims about the scenarios of the session, under Spec                   *)
(***************************************************************************)
\* the staff lists a scenario of the session holds, by value
StaffOf(s, k) ==
    [stylist_data |-> Deref(s.heap, s.scenarios[k].stylist_data),
     trainee_data |-> Deref(s.heap, s.scenarios[k].trainee_data),
     receptionist_data |-> Deref(s.heap, s.scenarios[k].receptionist_data)]

\* C25: the staff lists held by a scenario of the session change only by a
\* save under its name: no edit of the live stylists, trainees or
\* receptionists changes them
C25_ScenarioStaffKept ==
    [][ \A k \in DOMAIN ss.scenarios \cap DOMAIN ss'.scenarios :
           \/ last'.op = "save" /\ last'.name = k
           \/ StaffOf(ss', k) = StaffOf(ss, k) ]_vars

\* the part of C25 the code has: the numbers and dicts a scenario holds
\* change only by a save under its name
ScenarioDictsKept ==
    [][ \A k \in DOMAIN ss.scenarios \cap DOMAIN ss'.scenarios :
           \/ last'.op = "save" /\ last'.name = k
           \/ /\ ss'.scenarios[k].retail_percentage = ss.scenarios[k].retail_percentage
              /\ ss'.scenarios[k].salary_settings = ss.scenarios[k].salary_settings
              /\ ss'.scenarios[k].fixed_costs = ss.scenarios[k].fixed_costs
              /\ ss'.scenarios[k].variable_costs_percentages =
                    ss.scenarios[k].variable_costs_percentages ]_vars

(***************************************************************************)
(* Further claims about calculate_core_values, under SpecCompute           *)
(***************************************************************************)
\* the two payroll costs add up to the monthly salary cost, and the profit
\* is what is left of the sales after fixed costs, salary and other costs
PayrollCharged(r) ==
    /\ RAdd(r.variable_costs[WagesKey], r.variable_costs["Retail Commission"])
          = r.total_salary_cost
    /\ r.profit =
          RSub(RSub(RSub(r.total_sales, r.total_fixed_costs), r.total_salary_cost),
               RSumValues(r.variable_costs, VariableCostNames \ DerivedNames))

PayrollChargedWithSales == RPos(Result.total_sales) => PayrollCharged(Result)

\* C30: whenever monthly retail sales are above 0, the retail commission
\* percentage a call writes is the retail_commission_percentage setting,
\* for any number of stylists and any split of the sales among them
C30_RetailCommissionIsSetting ==
    LET r == Result
    IN  RPos(r.retail_sales) =>
          /\ r.vcp["Retail Commission"] =
                R(Inputs(ss).salary_settings["retail_commission_percentage"])
          /\ r.weekly_retail_commission =
                RDiv(RMul(r.weekly_retail_sales,
                          R(Inputs(ss).salary_settings["retail_commission_percentage"])),
                     R(100))

\* a call for two stylists with sales of 1000 and 500, retail sales and a
\* retail commission of 10 percent
C30_Witness ==
    /\ last.op = "compute"
    /\ Len(ss.stylists) = 2
    /\ ss.heap[ss.stylists[1]].sales = 1000
    /\ ss.heap[ss.stylists[2]].sales = 500
    /\ RPos(last.result.retail_sales)
    /\ ss.salary_settings["retail_commission_percentage"] = 10
    /\ ss.variable_costs_percentages["Retail Commission"] = R(10)
    /\ last.result.weekly_retail_commission = R(30)

\* the names of the session's scenario map are the names of the owner's rows;
\* the part of C27 the code has: this holds in a session without logout
ScenariosAgree == DOMAIN ss.scenarios = NamesOf(db, ss.user_id)

\* the last event was a save that the database rejected
SaveRejected == last.op = "save" /\ ~last.refused /\ ~last.ok

\* C27: while a user is logged in, the names of the session's scenario map
\* are the names stored for that user, and a save that the database rejected
\* has left no entry under its name in the map
C27_SessionAgreesWithStore ==
    LoggedIn => /\ ScenariosAgree
                /\ SaveRejected => last.name \notin DOMAIN ss.scenarios

\* a step is a load of a scenario, restoring the retail percentage v
LoadRestores(v) ==
    /\ last'.op = "load"
    /\ v = ss.scenarios[last'.name].retail_percentage

\* a step is an undo that took a state off the stack, restoring the retail
\* percentage v
UndoRestores(v) ==
    /\ last'.op = "undo" /\ last'.ok
    /\ v = ss.undo_stack[Len(ss.undo_stack)].retail_percentage

\* at the end of the run after the step retail_percentage is v and the stack
\* is the one the handler left
RestoredTo(v, stack) ==
    /\ ss'.retail_percentage = v
    /\ ss'.undo_stack = stack

\* C28: at the end of the run that follows a load or an undo,
\* retail_percentage is the restored value and the run has pushed nothing:
\* a load leaves the stack as it was, an undo leaves it one state shorter (so
\* that repeated undo empties it)
C28_RestoreEffective ==
    [][ \A v \in RetailValues :
          /\ LoadRestores(v) => RestoredTo(v, ss.undo_stack)
          /\ UndoRestores(v) =>
               RestoredTo(v, SubSeq(ss.undo_stack, 1, Len(ss.undo_stack) - 1)) ]_vars

\* the part of C28 the code has: the same when the retail widget shows the
\* restored value in the run that follows
RestoreEffectiveWidgetAgrees ==
    [][ \A v \in RetailValues :
          /\ (LoadRestores(v) /\ ss.retail_input_value = v)
               => RestoredTo(v, ss.undo_stack)
          /\ (UndoRestores(v) /\ ss'.retail_input_value = v)
               => RestoredTo(v, SubSeq(ss.undo_stack, 1, Len(ss.undo_stack) - 1)) ]_vars

\* current_scenario_name is its initial value or names a scenario of the map
NameInMap ==
    \/ ss.current_scenario_name = "Current Plan"
    \/ ss.current_scenario_name \in DOMAIN ss.scenarios

\* C29: while a user is logged in, current_scenario_name is "Current Plan" or
\* the name of a scenario in the session's scenario map
C29_CurrentNameInMap == LoggedIn => NameInMap
=============================================================================
